---- MODULE Spec2Model ----
(***************************************************************************)
(* The screenshot flow of the chat page: captureScreen (page.tsx), the     *)
(* pan/zoom selector ImageCropper and the click-drag selector              *)
(* ScreenshotSelector, each mounted by the page while tempScreenshot is    *)
(* set, and the message list the selectors' completion callback appends to.*)
(*                                                                         *)
(* The browser is a single-threaded event loop: every action below is one  *)
(* task (an event handler, or the continuation of an await) run to its end.*)
(* React state is read as of the last committed render; all the handlers   *)
(* modelled here are re-created (or their effect re-subscribed) whenever a *)
(* value they read changes, so each reads the current state.               *)
(***************************************************************************)
EXTENDS Integers, Sequences, FiniteSets, TLC

\* Number of clicks on the capture button.
MaxCaptures == 1
\* Number of text messages sent from the composer.
MaxTexts == 1

VARIABLES
    variant,          \* which selector the page mounts: "cropper" | "selector"
    \* ---- page (page.tsx ChatPage)
    messages,         \* useChat().messages
    tempScreenshot,   \* useState<string | null>
    uuidCount,        \* number of crypto.randomUUID() values drawn so far
    calls,            \* the captureScreen invocations: pc, display stream, steps done
    started,          \* number of captureScreen invocations so far
    \* ---- ImageCropper instance (state of the mounted instance)
    inst,             \* number of selector instances mounted so far
    keyListeners,     \* instances whose keydown listener is registered on document
    crop, zoom, croppedAreaPixels, aspectRatio, isProcessing,
    viewportArea,     \* the viewport's (react-easy-crop) current native CropArea
    jobs,             \* handleApplyCrop invocations suspended in getCroppedImg
    \* ---- ScreenshotSelector instance
    isSelecting, selection,
    imgDisplay,       \* imageRef.current.width / .height (layout size)
    overlayRect,      \* overlayRef.current.getBoundingClientRect(): width, height
    \* ---- composer and chat transport (page.tsx, useChat)
    inputText,        \* input, useState(''): the text in the composer
    sent,             \* the message lists handed to the chat transport so far
    idCount,          \* number of ids the chat hook has generated so far
    \* ---- observation
    obs,              \* what the last task did: callbacks, console.error, alert
    escaped           \* captures whose selector received an Escape keydown

pageVars     == <<messages, tempScreenshot, uuidCount>>
instVars     == <<inst, keyListeners>>
captureVars  == <<calls, started>>
cropperVars  == <<crop, zoom, croppedAreaPixels, aspectRatio, isProcessing, viewportArea>>
selectorVars == <<isSelecting, selection>>
chatVars     == <<inputText, sent, idCount>>
vars == <<variant, messages, tempScreenshot, uuidCount, calls, started, inst,
          keyListeners, crop, zoom, croppedAreaPixels, aspectRatio, isProcessing, viewportArea,
          jobs, isSelecting, selection, imgDisplay, overlayRect, inputText, sent, idCount,
          obs, escaped>>

(***************************************************************************)
(* Values                                                                  *)
(***************************************************************************)
\* null / undefined of the source, as records so that they compare with values
Null == [kind |-> "null"]

\* video.videoWidth x video.videoHeight of the captured stream
NativeSizes == {<<1000, 800>>}
\* layout size of the <img> the click-drag selector shows
DisplaySizes == {<<500, 400>>, <<300, 240>>}
\* sizes of the overlay (fixed inset-0: the window) in which an image of the
\* given layout size fits (max-w-full max-h-full): the image fills it, or it
\* fills its width and the overlay is taller
OverlaySizes(display) == {<<display[1], display[2]>>, <<display[1], display[2] + 200>>}
\* pointer positions relative to the selection surface
Points == {<<50, 50>>, <<100, 100>>, <<102, 102>>, <<110, 110>>,
           <<300, 300>>, <<100, 300>>}
\* pan offsets the viewport reports
Pans == {<<0, 0>>, <<10, 10>>}
\* zoom, in tenths (the slider's step is 0.1)
ZoomValues == {10, 20, 30}
\* the slider's min={1} and max={3}, in tenths
ZoomMin == 10
ZoomMax == 30
\* zoom values a pointer, key or gesture can ask for: those of the range, one
\* below it and one above it
ZoomRequests == ZoomValues \cup {0, 40}
\* native-pixel areas the viewport reports
Areas == {[x |-> 0, y |-> 0, width |-> 1000, height |-> 800],
          [x |-> 100, y |-> 50, width |-> 400, height |-> 300]}
\* ASPECT_RATIOS: undefined (free), 1, 4/3, 16/9, as <<numerator, denominator>>
Free == <<0, 0>>
ASPECT_RATIOS == {Free, <<1, 1>>, <<4, 3>>, <<16, 9>>}
Keys == {"Escape", "Enter"}

\* ---- exact rationals <<n, d>>, d > 0, n >= 0, in lowest terms
RECURSIVE GCD(_, _)
GCD(a, b) == IF b = 0 THEN a ELSE GCD(b, a % b)

Rat(n, d) == LET g == GCD(n, d) IN <<n \div g, d \div g>>

RatTimes(k, r) == Rat(k * r[1], r[2])

\* conversion of a number to a canvas dimension (unsigned long): truncation
ToUnsignedLong(r) == r[1] \div r[2]

Min(a, b) == IF a <= b THEN a ELSE b

\* a sequence without its i-th element
Remove(seq, i) == SubSeq(seq, 1, i - 1) \o SubSeq(seq, i + 1, Len(seq))

Abs(a) == IF a < 0 THEN -a ELSE a

\* the data URL of a captured frame: canvas.toDataURL of the video's first frame
FrameUrl(k, size) == [kind |-> "frame", cap |-> k, w |-> size[1], h |-> size[2]]

\* canvas.toDataURL after ctx.drawImage(image, sx, sy, sw, sh, 0, 0, dw, dh) on a
\* canvas of canvasWidth x canvasHeight: the image, the source rectangle sampled,
\* the destination rectangle's size and the size of the encoded image
DrawnUrl(image, sx, sy, sw, sh, dw, dh, canvasWidth, canvasHeight) ==
    [kind |-> "crop", src |-> image, sx |-> sx, sy |-> sy, sw |-> sw, sh |-> sh,
     dw |-> dw, dh |-> dh, outW |-> canvasWidth, outH |-> canvasHeight]

\* the capture a url was taken from
CaptureOf(url) == IF url.kind = "frame" THEN url.cap ELSE url.src.cap

\* obs records the last task: the handler that ran (op), what it read of the state
\* and of the environment when it started (input), the urls it passed to the
\* completion callback (complete), and its calls of the cancel callback, of
\* console.error and of alert
NoObs == [op |-> "none", input |-> Null, complete |-> <<>>, cancel |-> 0, errors |-> 0,
          alerts |-> 0]

Observe(op, input, complete, cancel, errors, alerts) ==
    [op |-> op, input |-> input, complete |-> complete, cancel |-> cancel,
     errors |-> errors, alerts |-> alerts]

(***************************************************************************)
(* Initial state: the page just rendered, nothing captured.                *)
(***************************************************************************)
IdleCall == [pc |-> "idle", stream |-> "none", steps |-> <<>>]

Init ==
    /\ variant \in {"cropper", "selector"}
    /\ messages = <<>>
    /\ tempScreenshot = Null
    /\ uuidCount = 0
    /\ calls = [k \in 1..MaxCaptures |-> IdleCall]
    /\ started = 0
    /\ inst = 0
    /\ keyListeners = {}
    /\ crop = <<0, 0>>
    /\ zoom = 10
    /\ croppedAreaPixels = Null
    /\ aspectRatio = Free
    /\ isProcessing = FALSE
    /\ viewportArea = Null
    /\ jobs = <<>>
    /\ isSelecting = FALSE
    /\ selection = Null
    /\ imgDisplay = Null
    /\ overlayRect = Null
    /\ inputText = ""
    /\ sent = <<>>
    /\ idCount = 0
    /\ obs = NoObs
    /\ escaped = {}

Mounted == tempScreenshot # Null

(***************************************************************************)
(* Page: tempScreenshot and the conditional render of the selector.        *)
(***************************************************************************)
\* a freshly mounted selector instance (useState initial values)
FreshInstance ==
    /\ crop' = <<0, 0>>
    /\ zoom' = 10
    /\ croppedAreaPixels' = Null
    /\ aspectRatio' = Free
    /\ isProcessing' = FALSE
    /\ viewportArea' = Null
    /\ isSelecting' = FALSE
    /\ selection' = Null

\* the keyboard effect of a selector that mounts:
\* document.addEventListener('keydown', handleKeyDown)
Subscribe(i) == keyListeners' = keyListeners \cup {i}

\* a faulty keyboard effect without cleanup: the listener of an unmounted
\* selector stays registered (C38 depends on Unsubscribe)
Unsubscribe_Never == UNCHANGED keyListeners

\* the cleanup of the keyboard effect, run when the mounted selector unmounts:
\* document.removeEventListener('keydown', handleKeyDown)
Unsubscribe == keyListeners' = IF Mounted THEN keyListeners \ {inst} ELSE keyListeners

\* setTempScreenshot(dataURL): the selector is rendered with imageSrc = dataURL;
\* it is mounted when none was, and keeps its state when one already was.
\* display is the size at which layout shows the image of the click-drag
\* selector, overlay the size of the overlay that contains it.
ShowSelector(dataURL, display, overlay) ==
    /\ tempScreenshot' = dataURL
    /\ imgDisplay' = IF variant = "selector"
                       THEN [w |-> display[1], h |-> display[2]] ELSE Null
    /\ overlayRect' = IF variant = "selector"
                        THEN [w |-> overlay[1], h |-> overlay[2]] ELSE Null
    /\ IF Mounted
         THEN UNCHANGED <<instVars, cropperVars, selectorVars>>
         ELSE inst' = inst + 1 /\ Subscribe(inst + 1) /\ FreshInstance

\* setTempScreenshot(null): the selector is unmounted and its state dropped
CloseSelector ==
    /\ tempScreenshot' = Null
    /\ imgDisplay' = Null
    /\ overlayRect' = Null
    /\ FreshInstance
    /\ Unsubscribe
    /\ UNCHANGED inst

\* a faulty message with a caption as text body and as a second part
\* (C14 depends on NewMessage)
NewMessage_WithCaption(id, croppedImageUrl) ==
    [id |-> id, role |-> "user", content |-> "Screenshot",
     parts |-> << [type |-> "image-screenshot", data |-> [url |-> croppedImageUrl]],
                  [type |-> "text", text |-> "Screenshot"] >>]

\* a faulty message whose id is the same for every message
\* (C16 depends on NewMessage)
NewMessage_FixedId(id, croppedImageUrl) ==
    [id |-> 1, role |-> "user", content |-> "",
     parts |-> << [type |-> "image-screenshot", data |-> [url |-> croppedImageUrl]] >>]

\* the message handleCropComplete builds; id is crypto.randomUUID()
NewMessage(id, croppedImageUrl) ==
    [id |-> id, role |-> "user", content |-> "",
     parts |-> << [type |-> "image-screenshot", data |-> [url |-> croppedImageUrl]] >>]

\* a faulty handleCropComplete that sets the list to the new message alone
\* instead of appending to the previous list (C15 depends on handleCropComplete)
handleCropComplete_Replaces(croppedImageUrl) ==
    /\ uuidCount' = uuidCount + 1
    /\ messages' = << NewMessage(uuidCount + 1, croppedImageUrl) >>
    /\ CloseSelector

\* a faulty handleCropComplete that appends the message and keeps the captured
\* frame, so that the selector stays (C32 depends on handleCropComplete)
handleCropComplete_KeepsFrame(croppedImageUrl) ==
    /\ uuidCount' = uuidCount + 1
    /\ messages' = Append(messages, NewMessage(uuidCount + 1, croppedImageUrl))
    /\ UNCHANGED <<tempScreenshot, imgDisplay, overlayRect, instVars, cropperVars,
                   selectorVars>>

\* handleCropComplete: append the image message, drop the captured frame
handleCropComplete(croppedImageUrl) ==
    /\ uuidCount' = uuidCount + 1
    /\ messages' = Append(messages, NewMessage(uuidCount + 1, croppedImageUrl))
    /\ CloseSelector

\* a faulty handleCropCancel that leaves the captured frame, and with it the
\* selector, in place (C25 depends on handleCropCancel)
handleCropCancel_KeepsSelector ==
    UNCHANGED <<messages, uuidCount, tempScreenshot, imgDisplay, overlayRect, instVars,
                cropperVars, selectorVars>>

\* handleCropCancel
handleCropCancel ==
    /\ CloseSelector
    /\ UNCHANGED <<messages, uuidCount>>

(***************************************************************************)
(* captureScreen: one invocation per click; it suspends at                 *)
(* await getDisplayMedia(...) and at await video.play().                   *)
(***************************************************************************)
\* the call reaches pc without having done anything that is recorded
SetCall(k, pc, stream) == calls' = [calls EXCEPT ![k].pc = pc, ![k].stream = stream]

\* the call reaches pc having executed, in this order, the statements done:
\*   "request"   navigator.mediaDevices.getDisplayMedia(...)
\*   "attach"    video.srcObject = stream; video.play()
\*   "playable"  await video.play() has resolved
\*   "snapshot"  ctx.drawImage(video, 0, 0); canvas.toDataURL('image/png')
\*   "stop"      stream.getTracks().forEach(track => track.stop())
\*   "open"      setTempScreenshot(dataURL)
Proceed(k, pc, stream, done) ==
    calls' = [calls EXCEPT ![k] = [pc |-> pc, stream |-> stream,
                                   steps |-> calls[k].steps \o done]]

\* stream.getTracks().forEach(track => track.stop())
StopTracks(stream) == "stopped"

\* a faulty captureScreen without the capability check: it requests a stream
\* whatever the platform offers (C13 depends on CaptureClick)
CaptureClick_NoSupportCheck ==
    /\ UNCHANGED chatVars
    /\ started < MaxCaptures
    /\ started' = started + 1
    /\ \E supported \in BOOLEAN :
         /\ SetCall(started + 1, "awaitStream", "none")
         /\ obs' = Observe("captureClick", [supported |-> supported], <<>>, 0, 0, 0)
    /\ UNCHANGED <<variant, pageVars, instVars, cropperVars, jobs, selectorVars,
                   imgDisplay, overlayRect, escaped>>

\* click on the capture button, up to the first await (or the early return);
\* supported: navigator.mediaDevices and its getDisplayMedia exist
CaptureClick ==
    /\ UNCHANGED chatVars
    /\ started < MaxCaptures
    /\ started' = started + 1
    /\ \E supported \in BOOLEAN :
         IF ~supported
           THEN /\ SetCall(started + 1, "done", "none")
                /\ obs' = Observe("captureClick", [supported |-> supported], <<>>, 0, 0, 1)
           ELSE /\ Proceed(started + 1, "awaitStream", "none", <<"request">>)
                /\ obs' = Observe("captureClick", [supported |-> supported], <<>>, 0, 0, 0)
    /\ UNCHANGED <<variant, pageVars, instVars, cropperVars, jobs, selectorVars,
                   imgDisplay, overlayRect, escaped>>

\* getDisplayMedia resolves: the stream is live; video.srcObject = stream; play()
StreamGranted(k) ==
    /\ UNCHANGED chatVars
    /\ calls[k].pc = "awaitStream"
    /\ Proceed(k, "awaitPlay", "live", <<"attach">>)
    /\ obs' = Observe("streamGranted", Null, <<>>, 0, 0, 0)
    /\ UNCHANGED <<variant, pageVars, started, instVars, cropperVars, jobs, selectorVars,
                   imgDisplay, overlayRect, escaped>>

\* a faulty rejection path that still shows the selector, as if the snapshot
\* had been taken (C11 depends on StreamRejected)
StreamRejected_ShowsSelector(k) ==
    /\ UNCHANGED chatVars
    /\ calls[k].pc = "awaitStream"
    /\ SetCall(k, "done", "none")
    /\ obs' = Observe("streamRejected", Null, <<>>, 0, 1, 0)
    /\ \E size \in NativeSizes :
       \E display \in (IF variant = "selector" THEN DisplaySizes ELSE {<<0, 0>>}) :
       \E overlay \in (IF variant = "selector" THEN OverlaySizes(display) ELSE {<<0, 0>>}) :
          ShowSelector(FrameUrl(k, size), display, overlay)
    /\ UNCHANGED <<variant, messages, uuidCount, started, jobs, escaped>>

\* a faulty catch that asks for the stream again after a rejection
\* (C34 depends on StreamRejected)
StreamRejected_Retries(k) ==
    /\ UNCHANGED chatVars
    /\ calls[k].pc = "awaitStream"
    /\ Proceed(k, "awaitStream", "none", <<"request">>)
    /\ obs' = Observe("streamRejected", Null, <<>>, 0, 1, 0)
    /\ UNCHANGED <<variant, pageVars, started, instVars, cropperVars, jobs, selectorVars,
                   imgDisplay, overlayRect, escaped>>

\* getDisplayMedia rejects (prompt declined, or any other error): catch, console.error
StreamRejected(k) ==
    /\ UNCHANGED chatVars
    /\ calls[k].pc = "awaitStream"
    /\ SetCall(k, "done", "none")
    /\ obs' = Observe("streamRejected", Null, <<>>, 0, 1, 0)
    /\ UNCHANGED <<variant, pageVars, started, instVars, cropperVars, jobs, selectorVars,
                   imgDisplay, overlayRect, escaped>>

\* a faulty captureScreen that stops the tracks and drops the captured frame
\* without showing the selector (C21 depends on PlayResolved)
PlayResolved_DropsFrame(k) ==
    /\ UNCHANGED chatVars
    /\ calls[k].pc = "awaitPlay"
    /\ \E ctxOk \in BOOLEAN :
         IF ctxOk
           THEN /\ SetCall(k, "done", StopTracks(calls[k].stream))
                /\ obs' = Observe("playResolved", Null, <<>>, 0, 0, 0)
           ELSE /\ SetCall(k, "done", calls[k].stream)
                /\ obs' = Observe("playResolved", Null, <<>>, 0, 1, 0)
    /\ UNCHANGED <<variant, pageVars, started, instVars, cropperVars, jobs, selectorVars,
                   imgDisplay, overlayRect, escaped>>

\* a faulty captureScreen that appends the captured frame to the conversation
\* directly instead of showing the selector (C20 depends on PlayResolved)
PlayResolved_AppendsFrame(k) ==
    /\ UNCHANGED chatVars
    /\ calls[k].pc = "awaitPlay"
    /\ \E ctxOk \in BOOLEAN :
         IF ctxOk
           THEN /\ \E size \in NativeSizes :
                     /\ messages' = Append(messages,
                                           NewMessage(uuidCount + 1, FrameUrl(k, size)))
                     /\ uuidCount' = uuidCount + 1
                /\ SetCall(k, "done", StopTracks(calls[k].stream))
                /\ obs' = Observe("playResolved", Null, <<>>, 0, 0, 0)
                /\ UNCHANGED <<tempScreenshot, instVars, cropperVars, selectorVars,
                               imgDisplay, overlayRect>>
           ELSE /\ SetCall(k, "done", calls[k].stream)
                /\ obs' = Observe("playResolved", Null, <<>>, 0, 1, 0)
                /\ UNCHANGED <<pageVars, instVars, cropperVars, selectorVars, imgDisplay,
                               overlayRect>>
    /\ UNCHANGED <<variant, started, jobs, escaped>>

\* a faulty captureScreen that shows the selector before it stops the tracks,
\* and stops them in a later task (C33 depends on PlayResolved)
PlayResolved_OpensBeforeStop(k) ==
    /\ UNCHANGED chatVars
    /\ \/ /\ calls[k].pc = "awaitPlay"
          /\ \E size \in NativeSizes :
             \E display \in (IF variant = "selector" THEN DisplaySizes ELSE {<<0, 0>>}) :
             \E overlay \in (IF variant = "selector" THEN OverlaySizes(display)
                                                      ELSE {<<0, 0>>}) :
                ShowSelector(FrameUrl(k, size), display, overlay)
          /\ Proceed(k, "stopping", calls[k].stream, <<"playable", "snapshot", "open">>)
          /\ obs' = Observe("playResolved", Null, <<>>, 0, 0, 0)
          /\ UNCHANGED <<messages, uuidCount>>
       \/ /\ calls[k].pc = "stopping"
          /\ Proceed(k, "done", StopTracks(calls[k].stream), <<"stop">>)
          /\ obs' = Observe("playResolved", Null, <<>>, 0, 0, 0)
          /\ UNCHANGED <<pageVars, instVars, cropperVars, selectorVars, imgDisplay,
                         overlayRect>>
    /\ UNCHANGED <<variant, started, jobs, escaped>>

\* video.play() resolves: snapshot the frame, stop the tracks, show the selector.
\* getContext('2d') may return null; ctx!.drawImage then throws into the catch.
PlayResolved(k) ==
    /\ UNCHANGED chatVars
    /\ calls[k].pc = "awaitPlay"
    /\ \E ctxOk \in BOOLEAN :
         IF ctxOk
           THEN /\ \E size \in NativeSizes :
                   \E display \in (IF variant = "selector" THEN DisplaySizes ELSE {<<0, 0>>}) :
                   \E overlay \in (IF variant = "selector" THEN OverlaySizes(display)
                                                            ELSE {<<0, 0>>}) :
                      ShowSelector(FrameUrl(k, size), display, overlay)
                /\ Proceed(k, "done", StopTracks(calls[k].stream),
                           <<"playable", "snapshot", "stop", "open">>)
                /\ obs' = Observe("playResolved", Null, <<>>, 0, 0, 0)
                /\ UNCHANGED <<messages, uuidCount>>
           ELSE /\ Proceed(k, "done", calls[k].stream, <<"playable">>)
                /\ obs' = Observe("playResolved", Null, <<>>, 0, 1, 0)
                /\ UNCHANGED <<pageVars, instVars, cropperVars, selectorVars, imgDisplay,
                               overlayRect>>
    /\ UNCHANGED <<variant, started, jobs, escaped>>

\* video.play() rejects: catch, console.error
PlayRejected(k) ==
    /\ UNCHANGED chatVars
    /\ calls[k].pc = "awaitPlay"
    /\ SetCall(k, "done", calls[k].stream)
    /\ obs' = Observe("playRejected", Null, <<>>, 0, 1, 0)
    /\ UNCHANGED <<variant, pageVars, started, instVars, cropperVars, jobs, selectorVars,
                   imgDisplay, overlayRect, escaped>>

(***************************************************************************)
(* ImageCropper (pan/zoom selector). Its handlers exist while it is        *)
(* mounted; a suspended handleApplyCrop outlives the instance.             *)
(***************************************************************************)
CropperOpen == variant = "cropper" /\ Mounted

\* getCroppedImg once the image has loaded and a 2d context was obtained
getCroppedImg(imageSrc, pixelCrop) ==
    DrawnUrl(imageSrc,
             Rat(pixelCrop.x, 1), Rat(pixelCrop.y, 1),
             Rat(pixelCrop.width, 1), Rat(pixelCrop.height, 1),
             Rat(pixelCrop.width, 1), Rat(pixelCrop.height, 1),
             ToUnsignedLong(Rat(pixelCrop.width, 1)),
             ToUnsignedLong(Rat(pixelCrop.height, 1)))

\* onCropChange: the viewport reports a pan
onCropChange(location) ==
    /\ UNCHANGED chatVars
    /\ CropperOpen
    /\ crop' = location
    /\ obs' = Observe("cropChange", [value |-> location], <<>>, 0, 0, 0)
    /\ UNCHANGED <<variant, pageVars, captureVars, instVars, zoom, croppedAreaPixels,
                   aspectRatio, isProcessing, viewportArea, jobs, selectorVars,
                   imgDisplay, overlayRect, escaped>>

\* onZoomChange: the viewport reports a zoom (wheel, pinch)
onZoomChange(z) ==
    /\ UNCHANGED chatVars
    /\ CropperOpen
    /\ zoom' = z
    /\ obs' = Observe("zoomChange", [value |-> z], <<>>, 0, 0, 0)
    /\ UNCHANGED <<variant, pageVars, captureVars, instVars, crop, croppedAreaPixels,
                   aspectRatio, isProcessing, viewportArea, jobs, selectorVars,
                   imgDisplay, overlayRect, escaped>>

\* the zoom the viewport reports for a wheel or pinch gesture asking for v: the
\* Cropper is given no zoom limits of its own and keeps to the range [1, 3]
ViewportZoom(v) ==
    IF v < ZoomMin THEN ZoomMin ELSE IF v > ZoomMax THEN ZoomMax ELSE v

\* a faulty slider without min / max (C17 depends on SliderValue)
SliderValue_Unclamped(v) == v

\* e.target.value of <input type="range" min={1} max={3}> when the user asks
\* for v: the element keeps its value within [min, max]
SliderValue(v) ==
    IF v < ZoomMin THEN ZoomMin ELSE IF v > ZoomMax THEN ZoomMax ELSE v

\* the zoom slider's onChange: setZoom(Number(e.target.value))
ZoomSlider(v) ==
    /\ UNCHANGED chatVars
    /\ CropperOpen
    /\ zoom' = SliderValue(v)
    /\ obs' = Observe("zoomSlider", [requested |-> v, value |-> SliderValue(v)],
                      <<>>, 0, 0, 0)
    /\ UNCHANGED <<variant, pageVars, captureVars, instVars, crop, croppedAreaPixels,
                   aspectRatio, isProcessing, viewportArea, jobs, selectorVars,
                   imgDisplay, overlayRect, escaped>>

\* the viewport's first argument: the area in percentages of the image
Percentages(areaPixels, image) ==
    [x |-> (100 * areaPixels.x) \div image.w, y |-> (100 * areaPixels.y) \div image.h,
     width  |-> (100 * areaPixels.width) \div image.w,
     height |-> (100 * areaPixels.height) \div image.h]

\* a faulty onCropAreaChange that stores the percentages (C8 depends on StoredArea)
StoredArea_Percentages(croppedArea, areaPixels) == croppedArea

\* what onCropAreaChange stores of the viewport's two arguments
StoredArea(croppedArea, areaPixels) == areaPixels

\* onCropAreaChange: the viewport reports its crop area (percentages, pixels)
onCropAreaChange(croppedArea, areaPixels) ==
    /\ UNCHANGED chatVars
    /\ CropperOpen
    /\ viewportArea' = areaPixels
    /\ croppedAreaPixels' = StoredArea(croppedArea, areaPixels)
    /\ obs' = Observe("cropAreaChange", Null, <<>>, 0, 0, 0)
    /\ UNCHANGED <<variant, pageVars, captureVars, instVars, crop, zoom, aspectRatio,
                   isProcessing, jobs, selectorVars, imgDisplay, overlayRect, escaped>>

\* a faulty aspect ratio button that also resets pan and zoom
\* (C35 depends on AspectButton)
AspectButton_ResetsView(value) ==
    /\ UNCHANGED chatVars
    /\ CropperOpen
    /\ aspectRatio' = value
    /\ crop' = <<0, 0>>
    /\ zoom' = 10
    /\ obs' = Observe("aspect", [value |-> value], <<>>, 0, 0, 0)
    /\ UNCHANGED <<variant, pageVars, captureVars, instVars, croppedAreaPixels,
                   isProcessing, viewportArea, jobs, selectorVars, imgDisplay,
                   overlayRect, escaped>>

\* an aspect ratio button: setAspectRatio(value)
AspectButton(value) ==
    /\ UNCHANGED chatVars
    /\ CropperOpen
    /\ aspectRatio' = value
    /\ obs' = Observe("aspect", [value |-> value], <<>>, 0, 0, 0)
    /\ UNCHANGED <<variant, pageVars, captureVars, instVars, crop, zoom, croppedAreaPixels,
                   isProcessing, viewportArea, jobs, selectorVars, imgDisplay,
                   overlayRect, escaped>>

\* the invocation handleApplyCrop suspends: what getCroppedImg was called with
\* (reported: the viewport's area at that moment, kept for observation)
NewJob == [inst |-> inst, src |-> tempScreenshot, area |-> croppedAreaPixels,
           st |-> "loading", reported |-> viewportArea]

\* what a submission (button or Enter) finds when it is made
SubmitInput == [area |-> croppedAreaPixels, image |-> tempScreenshot,
                processing |-> isProcessing]

\* a faulty handleApplyCrop without the null check (C9 depends on handleApplyCrop)
handleApplyCrop_NoGuard(op) ==
    /\ UNCHANGED chatVars
    /\ obs' = Observe(op, SubmitInput, <<>>, 0, 0, 0)
    /\ isProcessing' = TRUE
    /\ jobs' = Append(jobs, NewJob)
    /\ UNCHANGED <<variant, pageVars, captureVars, instVars, crop, zoom, croppedAreaPixels,
                   aspectRatio, viewportArea, selectorVars, imgDisplay, overlayRect, escaped>>

\* handleApplyCrop up to await getCroppedImg(...)
handleApplyCrop(op) ==
    /\ UNCHANGED chatVars
    /\ obs' = Observe(op, SubmitInput, <<>>, 0, 0, 0)
    /\ IF croppedAreaPixels = Null
         THEN UNCHANGED <<isProcessing, jobs>>
         ELSE /\ isProcessing' = TRUE
              /\ jobs' = Append(jobs, NewJob)
    /\ UNCHANGED <<variant, pageVars, captureVars, instVars, crop, zoom, croppedAreaPixels,
                   aspectRatio, viewportArea, selectorVars, imgDisplay, overlayRect, escaped>>

\* the Apply Crop button is disabled={isProcessing}
ApplyButtonEnabled == ~isProcessing

ApplyButton ==
    /\ CropperOpen
    /\ ApplyButtonEnabled
    /\ handleApplyCrop("apply")

\* a faulty skip that crops when an area is known (C10 depends on SkipUrl)
SkipUrl_Cropped ==
    IF croppedAreaPixels = Null
      THEN tempScreenshot
      ELSE getCroppedImg(tempScreenshot, croppedAreaPixels)

\* what handleSkipCrop passes to onCropComplete
SkipUrl == tempScreenshot

\* handleSkipCrop: the Skip Crop button
handleSkipCrop ==
    /\ UNCHANGED chatVars
    /\ CropperOpen
    /\ handleCropComplete(SkipUrl)
    /\ obs' = Observe("skip",
                      [image |-> tempScreenshot, area |-> croppedAreaPixels,
                       crop |-> crop, zoom |-> zoom, aspect |-> aspectRatio],
                      <<SkipUrl>>, 0, 0, 0)
    /\ UNCHANGED <<variant, captureVars, jobs, escaped>>

\* the Cancel button: onClick={onCancel}
CancelButton ==
    /\ UNCHANGED chatVars
    /\ CropperOpen
    /\ handleCropCancel
    /\ obs' = Observe("cancel", Null, <<>>, 1, 0, 0)
    /\ UNCHANGED <<variant, captureVars, jobs, escaped>>

\* a faulty Enter branch without the isProcessing test (C7 depends on EnterApplies)
EnterApplies_Always == TRUE

\* a faulty Enter branch with the isProcessing test inverted
\* (C19 depends on EnterApplies)
EnterApplies_Inverted == isProcessing

\* e.key === 'Enter' && !isProcessing
EnterApplies == ~isProcessing

\* handleKeyDown, the document keydown listener of an ImageCropper instance,
\* called for a keydown while it is registered
CropperKeyDown(key) ==
    /\ UNCHANGED chatVars
    /\ variant = "cropper"
    /\ keyListeners # {}
    /\ IF key = "Escape"
         THEN /\ handleCropCancel
              /\ obs' = Observe("escape", Null, <<>>, 1, 0, 0)
              /\ escaped' = IF Mounted THEN escaped \cup {CaptureOf(tempScreenshot)}
                                       ELSE escaped
              /\ UNCHANGED <<variant, captureVars, jobs>>
         ELSE IF key = "Enter" /\ EnterApplies
           THEN handleApplyCrop("enter")
           ELSE /\ obs' = Observe("enter", SubmitInput, <<>>, 0, 0, 0)
                /\ UNCHANGED <<variant, pageVars, captureVars, instVars, cropperVars, jobs,
                               selectorVars, imgDisplay, overlayRect, escaped>>

\* the source image of a suspended getCroppedImg fails to load: image.onload
\* never fires and no onerror is set, so the promise never settles
ImageLoadFails(i) ==
    /\ UNCHANGED chatVars
    /\ i \in 1..Len(jobs)
    /\ jobs[i].st = "loading"
    /\ jobs' = [jobs EXCEPT ![i].st = "hung"]
    /\ obs' = Observe("imageError", Null, <<>>, 0, 0, 0)
    /\ UNCHANGED <<variant, pageVars, captureVars, instVars, cropperVars, selectorVars,
                   imgDisplay, overlayRect, escaped>>

\* a faulty handleApplyCrop without the finally: a failed application leaves
\* isProcessing set (C27 depends on ApplyFinish)
ApplyFinish_NoFinally(i) ==
    /\ UNCHANGED chatVars
    /\ i \in 1..Len(jobs)
    /\ jobs[i].st = "loading"
    /\ jobs' = Remove(jobs, i)
    /\ \E ctxOk \in BOOLEAN :
         LET j == jobs[i]
             input == [job |-> j, ctx |-> ctxOk, current |-> croppedAreaPixels]
         IN  IF ctxOk
               THEN /\ handleCropComplete(getCroppedImg(j.src, j.area))
                    /\ obs' = Observe("applyFinish", input,
                                      <<getCroppedImg(j.src, j.area)>>, 0, 0, 0)
               ELSE /\ obs' = Observe("applyFinish", input, <<>>, 0, 1, 0)
                    /\ UNCHANGED <<pageVars, instVars, cropperVars, selectorVars, imgDisplay,
                                   overlayRect>>
    /\ UNCHANGED <<variant, captureVars, escaped>>

\* the image of a suspended getCroppedImg has loaded: the rest of getCroppedImg
\* and of handleApplyCrop (try / catch / finally) run in one task
ApplyFinish(i) ==
    /\ UNCHANGED chatVars
    /\ i \in 1..Len(jobs)
    /\ jobs[i].st = "loading"
    /\ jobs' = Remove(jobs, i)
    /\ \E ctxOk \in BOOLEAN :
         LET j == jobs[i]
             input == [job |-> j, ctx |-> ctxOk, current |-> croppedAreaPixels]
         IN  IF ctxOk
               THEN /\ handleCropComplete(getCroppedImg(j.src, j.area))
                    /\ obs' = Observe("applyFinish", input,
                                      <<getCroppedImg(j.src, j.area)>>, 0, 0, 0)
               ELSE /\ isProcessing' =
                         IF Mounted /\ j.inst = inst THEN FALSE ELSE isProcessing
                    /\ obs' = Observe("applyFinish", input, <<>>, 0, 1, 0)
                    /\ UNCHANGED <<pageVars, instVars, crop, zoom, croppedAreaPixels,
                                   aspectRatio, viewportArea, selectorVars, imgDisplay,
                                   overlayRect>>
    /\ UNCHANGED <<variant, captureVars, escaped>>

(***************************************************************************)
(* ScreenshotSelector (click-drag selector), mounted by the page in place  *)
(* of the ImageCropper with the same two callbacks.                        *)
(***************************************************************************)
SelectorOpen == variant = "selector" /\ Mounted

\* a faulty getSelectionBox with signed extents (C4 depends on getSelectionBox)
getSelectionBox_Signed(sel) ==
    IF sel = Null
      THEN Null
      ELSE [left   |-> Min(sel.startX, sel.endX),
            top    |-> Min(sel.startY, sel.endY),
            width  |-> sel.endX - sel.startX,
            height |-> sel.endY - sel.startY]

\* getSelectionBox: the NormalizedBox of a selection, null without one
getSelectionBox(sel) ==
    IF sel = Null
      THEN Null
      ELSE [left   |-> Min(sel.startX, sel.endX),
            top    |-> Min(sel.startY, sel.endY),
            width  |-> Abs(sel.endX - sel.startX),
            height |-> Abs(sel.endY - sel.startY)]

\* a faulty showSelection without the test of the extents: the overlay shows
\* as soon as a selection is recorded (C31 depends on showSelection)
showSelection_AnyBox ==
    LET selectionBox == getSelectionBox(selection)
    IN  isSelecting /\ selectionBox # Null

\* showSelection of the render:
\* isSelecting && selectionBox && (selectionBox.width > 0 || selectionBox.height > 0)
showSelection ==
    LET selectionBox == getSelectionBox(selection)
    IN  /\ isSelecting
        /\ selectionBox # Null
        /\ (selectionBox.width > 0 \/ selectionBox.height > 0)

\* the selection overlay the render produces: the style of the selection-box
\* element and the text of its dimensions label; null when it is not rendered
SelectionOverlay ==
    LET selectionBox == getSelectionBox(selection)
    IN  IF showSelection
          THEN [style |-> [left |-> selectionBox.left, top |-> selectionBox.top,
                           width |-> selectionBox.width, height |-> selectionBox.height],
                label |-> <<selectionBox.width, "x", selectionBox.height>>]
          ELSE Null

\* the <img> element: natural size of the frame, layout size
ImageElement == [naturalWidth |-> tempScreenshot.w, naturalHeight |-> tempScreenshot.h,
                 width |-> imgDisplay.w, height |-> imgDisplay.h]

\* canvas.width = width * scaleX (and height): a number stored as unsigned long
CanvasSize(scaled) == ToUnsignedLong(scaled)

\* a faulty getCroppedImage that samples the display-space box unscaled
\* (C5 depends on getCroppedImage)
getCroppedImage_Unscaled(imageSrc, sel, imageElement) ==
    LET left   == Min(sel.startX, sel.endX)
        top    == Min(sel.startY, sel.endY)
        width  == Abs(sel.endX - sel.startX)
        height == Abs(sel.endY - sel.startY)
    IN  DrawnUrl(imageSrc, Rat(left, 1), Rat(top, 1), Rat(width, 1), Rat(height, 1),
                 Rat(width, 1), Rat(height, 1), width, height)

\* getCroppedImage once a 2d context was obtained
getCroppedImage(imageSrc, sel, imageElement) ==
    LET left   == Min(sel.startX, sel.endX)
        top    == Min(sel.startY, sel.endY)
        width  == Abs(sel.endX - sel.startX)
        height == Abs(sel.endY - sel.startY)
        scaleX == Rat(imageElement.naturalWidth, imageElement.width)
        scaleY == Rat(imageElement.naturalHeight, imageElement.height)
        canvasWidth  == CanvasSize(RatTimes(width, scaleX))
        canvasHeight == CanvasSize(RatTimes(height, scaleY))
    IN  DrawnUrl(imageSrc,
                 RatTimes(left, scaleX), RatTimes(top, scaleY),
                 RatTimes(width, scaleX), RatTimes(height, scaleY),
                 Rat(canvasWidth, 1), Rat(canvasHeight, 1),
                 canvasWidth, canvasHeight)

\* a pointer position on the overlay, relative to its top-left corner
OnOverlay(p) == p[1] <= overlayRect.w /\ p[2] <= overlayRect.h

\* the top-left corner of the <img> in the overlay, which centres it
\* (flex items-center justify-center)
ImagePosition(overlay, display) ==
    [left |-> (overlay.w - display.w) \div 2, top |-> (overlay.h - display.h) \div 2]

\* a faulty handleMouseDown that records the selection without
\* setIsSelecting(true) (C36 depends on handleMouseDown)
handleMouseDown_NoFlag(p) ==
    /\ UNCHANGED chatVars
    /\ SelectorOpen
    /\ OnOverlay(p)
    /\ selection' = [startX |-> p[1], startY |-> p[2], endX |-> p[1], endY |-> p[2]]
    /\ obs' = Observe("mouseDown", Null, <<>>, 0, 0, 0)
    /\ UNCHANGED <<variant, pageVars, captureVars, instVars, cropperVars, jobs,
                   isSelecting, imgDisplay, overlayRect, escaped>>

\* handleMouseDown: x = e.clientX - rect.left, y = e.clientY - rect.top
handleMouseDown(p) ==
    /\ UNCHANGED chatVars
    /\ SelectorOpen
    /\ OnOverlay(p)
    /\ isSelecting' = TRUE
    /\ selection' = [startX |-> p[1], startY |-> p[2], endX |-> p[1], endY |-> p[2]]
    /\ obs' = Observe("mouseDown", Null, <<>>, 0, 0, 0)
    /\ UNCHANGED <<variant, pageVars, captureVars, instVars, cropperVars, jobs, imgDisplay,
                   overlayRect,
                   escaped>>

\* a faulty handleMouseMove without the isSelecting / selection test: a move
\* with no selection records one (C24 depends on handleMouseMove)
handleMouseMove_NoGuard(p) ==
    /\ UNCHANGED chatVars
    /\ SelectorOpen
    /\ OnOverlay(p)
    /\ obs' = Observe("mouseMove", Null, <<>>, 0, 0, 0)
    /\ selection' = IF selection = Null
                      THEN [startX |-> p[1], startY |-> p[2], endX |-> p[1], endY |-> p[2]]
                      ELSE [selection EXCEPT !.endX = p[1], !.endY = p[2]]
    /\ UNCHANGED <<variant, pageVars, captureVars, instVars, cropperVars, jobs, isSelecting,
                   imgDisplay, overlayRect, escaped>>

\* handleMouseMove
handleMouseMove(p) ==
    /\ UNCHANGED chatVars
    /\ SelectorOpen
    /\ OnOverlay(p)
    /\ obs' = Observe("mouseMove", Null, <<>>, 0, 0, 0)
    /\ IF ~isSelecting \/ selection = Null
         THEN UNCHANGED selection
         ELSE selection' = [selection EXCEPT !.endX = p[1], !.endY = p[2]]
    /\ UNCHANGED <<variant, pageVars, captureVars, instVars, cropperVars, jobs, isSelecting,
                   imgDisplay, overlayRect, escaped>>

\* the minimum display-space width and height of a selection that is cropped
MinSelection == 10

\* a faulty test that rejects only a box small in both extents
\* (C3 depends on TooSmall)
TooSmall_BothExtents(box) == box.width < MinSelection /\ box.height < MinSelection

\* a faulty test that also rejects a box of exactly the minimum size
\* (C6 depends on TooSmall)
TooSmall_Inclusive(box) == box.width <= MinSelection \/ box.height <= MinSelection

\* box.width < 10 || box.height < 10
TooSmall(box) == box.width < MinSelection \/ box.height < MinSelection

\* a faulty handleMouseUp that returns from its catch: after a failed
\* rasterization the selector stays Selecting (C37 depends on handleMouseUp)
handleMouseUp_FailureKeepsSelecting ==
    /\ UNCHANGED chatVars
    /\ SelectorOpen
    /\ \E ctxOk \in BOOLEAN :
         LET input == [selecting |-> isSelecting, selection |-> selection,
                       image |-> tempScreenshot, display |-> imgDisplay,
                       overlay |-> overlayRect, ctx |-> ctxOk]
         IN  IF ~isSelecting \/ selection = Null
               THEN /\ obs' = Observe("mouseUp", input, <<>>, 0, 0, 0)
                    /\ UNCHANGED <<pageVars, instVars, cropperVars, selectorVars, imgDisplay,
                                   overlayRect>>
               ELSE IF TooSmall(getSelectionBox(selection))
                 THEN /\ isSelecting' = FALSE
                      /\ selection' = Null
                      /\ obs' = Observe("mouseUp", input, <<>>, 0, 0, 0)
                      /\ UNCHANGED <<pageVars, instVars, cropperVars, imgDisplay, overlayRect>>
                 ELSE IF ctxOk
                   THEN LET croppedImage ==
                              getCroppedImage(tempScreenshot, selection, ImageElement)
                        IN  /\ handleCropComplete(croppedImage)
                            /\ obs' = Observe("mouseUp", input, <<croppedImage>>, 0, 0, 0)
                   ELSE /\ obs' = Observe("mouseUp", input, <<>>, 0, 1, 0)
                        /\ UNCHANGED <<pageVars, instVars, cropperVars, selectorVars,
                                       imgDisplay, overlayRect>>
    /\ UNCHANGED <<variant, captureVars, jobs, escaped>>

\* handleMouseUp. The await of getCroppedImage yields only to the microtask
\* queue (getCroppedImage itself awaits nothing), so no event comes in between.
handleMouseUp ==
    /\ UNCHANGED chatVars
    /\ SelectorOpen
    /\ \E ctxOk \in BOOLEAN :
         LET input == [selecting |-> isSelecting, selection |-> selection,
                       image |-> tempScreenshot, display |-> imgDisplay,
                       overlay |-> overlayRect, ctx |-> ctxOk]
         IN  IF ~isSelecting \/ selection = Null
               THEN /\ obs' = Observe("mouseUp", input, <<>>, 0, 0, 0)
                    /\ UNCHANGED <<pageVars, instVars, cropperVars, selectorVars, imgDisplay,
                                   overlayRect>>
               ELSE IF TooSmall(getSelectionBox(selection))
                 THEN /\ isSelecting' = FALSE
                      /\ selection' = Null
                      /\ obs' = Observe("mouseUp", input, <<>>, 0, 0, 0)
                      /\ UNCHANGED <<pageVars, instVars, cropperVars, imgDisplay, overlayRect>>
                 ELSE IF ctxOk
                   THEN LET croppedImage ==
                              getCroppedImage(tempScreenshot, selection, ImageElement)
                        IN  /\ handleCropComplete(croppedImage)
                            /\ obs' = Observe("mouseUp", input, <<croppedImage>>, 0, 0, 0)
                   ELSE /\ isSelecting' = FALSE
                        /\ selection' = Null
                        /\ obs' = Observe("mouseUp", input, <<>>, 0, 1, 0)
                        /\ UNCHANGED <<pageVars, instVars, cropperVars, imgDisplay, overlayRect>>
    /\ UNCHANGED <<variant, captureVars, jobs, escaped>>

\* handleKeyDown, the document keydown listener of a ScreenshotSelector
\* instance, called for a keydown while it is registered
SelectorKeyDown(key) ==
    /\ UNCHANGED chatVars
    /\ variant = "selector"
    /\ keyListeners # {}
    /\ IF key = "Escape"
         THEN /\ handleCropCancel
              /\ obs' = Observe("escape",
                                [selecting |-> isSelecting, selection |-> selection],
                                <<>>, 1, 0, 0)
              /\ escaped' = IF Mounted THEN escaped \cup {CaptureOf(tempScreenshot)}
                                       ELSE escaped
         ELSE /\ obs' = Observe("key", Null, <<>>, 0, 0, 0)
              /\ UNCHANGED <<pageVars, instVars, cropperVars, selectorVars, imgDisplay,
                             overlayRect, escaped>>
    /\ UNCHANGED <<variant, captureVars, jobs>>

\* the header's close button (aria-label "Cancel selection"): onClick={onCancel}
SelectorCloseButton ==
    /\ UNCHANGED chatVars
    /\ SelectorOpen
    /\ handleCropCancel
    /\ obs' = Observe("cancel", Null, <<>>, 1, 0, 0)
    /\ UNCHANGED <<variant, captureVars, jobs, escaped>>

\* a keydown on the document while no selector has a listener registered: the
\* page itself listens to no key, so nothing runs
DocumentKeyDown(key) ==
    /\ keyListeners = {}
    /\ obs' = Observe("keydown", [key |-> key], <<>>, 0, 0, 0)
    /\ UNCHANGED <<variant, pageVars, captureVars, instVars, cropperVars, jobs,
                   selectorVars, imgDisplay, overlayRect, chatVars, escaped>>

(***************************************************************************)
(* Composer: the text input and the form of the page. sendMessage belongs  *)
(* to the chat hook: it adds the user's message to the conversation and    *)
(* hands the conversation, the new message included, to the chat transport.*)
(* The streamed response is not modelled.                                  *)
(***************************************************************************)
\* texts typed into the composer: empty, blank, not blank, not blank with a
\* leading space
Inputs == {"", " ", "hi", " hi"}

\* input.trim(), on the texts of Inputs
Trim(s) == IF s = " " THEN "" ELSE IF s = " hi" THEN "hi" ELSE s

\* the id the chat hook generates for the n-th message it creates: ids differ
\* from one another and from the UUIDs of the image messages
GenerateId(n) == -n

\* the message the chat hook creates for sendMessage({ text })
TextMessage(id, text) ==
    [id |-> id, role |-> "user", parts |-> << [type |-> "text", text |-> text] >>]

\* sendMessage({ text }): the message joins the conversation and the chat
\* transport is called with the conversation ending in it
sendMessage(text) ==
    LET message == TextMessage(GenerateId(idCount + 1), text)
    IN  /\ idCount' = idCount + 1
        /\ messages' = Append(messages, message)
        /\ sent' = Append(sent, Append(messages, message))

\* the composer's onChange: setInput(e.target.value)
InputChange(text) ==
    /\ inputText' = text
    /\ obs' = Observe("inputChange", Null, <<>>, 0, 0, 0)
    /\ UNCHANGED <<variant, pageVars, captureVars, instVars, cropperVars, jobs, selectorVars,
                   imgDisplay, overlayRect, sent, idCount, escaped>>

\* a faulty onSubmit without the test of the trimmed input: it sends whatever
\* the composer holds (C39 depends on FormSubmit)
FormSubmit_NoTrimTest ==
    /\ obs' = Observe("submit", [text |-> inputText], <<>>, 0, 0, 0)
    /\ idCount < MaxTexts
    /\ sendMessage(inputText)
    /\ inputText' = ""
    /\ UNCHANGED <<variant, tempScreenshot, uuidCount, captureVars, instVars, cropperVars,
                   jobs, selectorVars, imgDisplay, overlayRect, escaped>>

\* the form's onSubmit
FormSubmit ==
    /\ obs' = Observe("submit", [text |-> inputText], <<>>, 0, 0, 0)
    /\ IF Trim(inputText) # ""
         THEN /\ idCount < MaxTexts
              /\ sendMessage(inputText)
              /\ inputText' = ""
         ELSE UNCHANGED <<messages, chatVars>>
    /\ UNCHANGED <<variant, tempScreenshot, uuidCount, captureVars, instVars, cropperVars,
                   jobs, selectorVars, imgDisplay, overlayRect, escaped>>

(***************************************************************************)
(* Specification                                                           *)
(***************************************************************************)
Next ==
    \/ CaptureClick
    \/ \E k \in 1..MaxCaptures : StreamGranted(k)
    \/ \E k \in 1..MaxCaptures : StreamRejected(k)
    \/ \E k \in 1..MaxCaptures : PlayResolved(k)
    \/ \E k \in 1..MaxCaptures : PlayRejected(k)
    \/ \E location \in Pans : onCropChange(location)
    \/ \E v \in ZoomRequests : onZoomChange(ViewportZoom(v))
    \/ \E v \in ZoomRequests : ZoomSlider(v)
    \/ \E a \in Areas : onCropAreaChange(Percentages(a, tempScreenshot), a)
    \/ \E r \in ASPECT_RATIOS : AspectButton(r)
    \/ ApplyButton
    \/ handleSkipCrop
    \/ CancelButton
    \/ \E key \in Keys : CropperKeyDown(key)
    \/ \E i \in 1..Len(jobs) : ImageLoadFails(i)
    \/ \E i \in 1..Len(jobs) : ApplyFinish(i)
    \/ \E p \in Points : handleMouseDown(p)
    \/ \E p \in Points : handleMouseMove(p)
    \/ handleMouseUp
    \/ \E key \in Keys : SelectorKeyDown(key)
    \/ SelectorCloseButton
    \/ \E key \in Keys : DocumentKeyDown(key)

Spec == Init /\ [][Next]_vars

\* the browser delivers the load event of an image that loads, and the event
\* loop then runs the continuation of the getCroppedImg that awaits it
Fairness == WF_vars(\E i \in 1..Len(jobs) : ApplyFinish(i))

FairSpec == Init /\ [][Next]_vars /\ Fairness

\* the screenshot flow together with the composer
ChatNext ==
    \/ Next
    \/ \E text \in Inputs : InputChange(text)
    \/ FormSubmit

ChatSpec == Init /\ [][ChatNext]_vars

(***************************************************************************)
(* Properties                                                              *)
(***************************************************************************)
MessageUrl(m) == m.parts[1].data.url

\* number of messages whose image was taken from capture k
MessagesOf(msgs, k) ==
    Cardinality({i \in 1..Len(msgs) : CaptureOf(MessageUrl(msgs[i])) = k})

\* C1: once a selector has received an escape signal, the capture cycle it
\* was showing appends no further message, whatever task runs afterwards.
C1_EscapeLeavesNoMessage ==
    [][\A k \in escaped : MessagesOf(messages', k) = MessagesOf(messages, k)]_vars

\* C2: no finished captureScreen call leaves the stream it acquired live.
C2_FinishedCallStreamStopped ==
    \A k \in 1..MaxCaptures : calls[k].pc = "done" => calls[k].stream # "live"

\* the display-space extents of a recorded selection, from its corners
ExtentX(sel) == IF sel.endX >= sel.startX THEN sel.endX - sel.startX
                                          ELSE sel.startX - sel.endX

ExtentY(sel) == IF sel.endY >= sel.startY THEN sel.endY - sel.startY
                                          ELSE sel.startY - sel.endY

Corner(x1, y1, x2, y2) == [startX |-> x1, startY |-> y1, endX |-> x2, endY |-> y2]

\* a mouse-up task that finds the click-drag selector Selecting
MouseUpWhileSelecting ==
    obs'.op = "mouseUp" /\ SelectorOpen /\ isSelecting /\ selection # Null

\* C3: a pointerUp ending a drag whose box is narrower or lower than 10 display
\* pixels invokes neither callback, logs no error, appends no message and
\* leaves the selector open and Idle with no selection.
C3_SmallDragDiscarded ==
    [][(MouseUpWhileSelecting /\ (ExtentX(selection) < 10 \/ ExtentY(selection) < 10))
         => /\ obs'.complete = <<>>
            /\ obs'.cancel = 0
            /\ obs'.errors = 0
            /\ obs'.alerts = 0
            /\ messages' = messages
            /\ tempScreenshot' = tempScreenshot
            /\ isSelecting' = FALSE
            /\ selection' = Null]_vars

\* the drag (100,100) -> (102,102) was released and discarded
C3_Witness ==
    /\ obs.op = "mouseUp"
    /\ obs.input.selecting
    /\ obs.input.selection = Corner(100, 100, 102, 102)
    /\ obs.complete = <<>>
    /\ Mounted
    /\ ~isSelecting
    /\ selection = Null

\* C4: for every recorded selection, whatever the drag direction, the
\* NormalizedBox has left and top at the smaller of the two corner coordinates
\* and width and height equal to the distance between them, hence >= 0; the
\* drag (300,300) -> (100,100) gives {100, 100, 200, 200}.
C4_NormalizedBox ==
    selection # Null =>
      LET box == getSelectionBox(selection)
      IN  /\ box.width >= 0
          /\ box.height >= 0
          /\ box.left \in {selection.startX, selection.endX}
          /\ box.left <= selection.startX /\ box.left <= selection.endX
          /\ box.left + box.width \in {selection.startX, selection.endX}
          /\ box.top \in {selection.startY, selection.endY}
          /\ box.top <= selection.startY /\ box.top <= selection.endY
          /\ box.top + box.height \in {selection.startY, selection.endY}
          /\ (selection = Corner(300, 300, 100, 100)
                => box = [left |-> 100, top |-> 100, width |-> 200, height |-> 200])

\* a drag from (300,300) up and left to (100,100) is in progress
C4_Witness == isSelecting /\ selection = Corner(300, 300, 100, 100)

\* a mouse-up task that cropped: its selection, frame and display size
CroppedByDrag == obs.op = "mouseUp" /\ obs.complete # <<>>

\* the sampled rectangle of url u is the box of sel scaled by native / display;
\* a rational <<n, d>> equals k * native / display iff n * display = k * native * d
SamplesScaledBox(u, sel, image, display) ==
    LET left == Min(sel.startX, sel.endX)
        top  == Min(sel.startY, sel.endY)
    IN  /\ u.src = image
        /\ u.sx[1] * display.w = left * image.w * u.sx[2]
        /\ u.sy[1] * display.h = top * image.h * u.sy[2]
        /\ u.sw[1] * display.w = ExtentX(sel) * image.w * u.sw[2]
        /\ u.sh[1] * display.h = ExtentY(sel) * image.h * u.sh[2]

\* C5 as stated: the crop samples the scaled box and the output image has
\* exactly the scaled box dimensions.
C5_OutputHasScaledSize ==
    CroppedByDrag =>
      LET u == obs.complete[1]
          sel == obs.input.selection
          image == obs.input.image
          display == obs.input.display
      IN  /\ SamplesScaledBox(u, sel, image, display)
          /\ u.outW * display.w = ExtentX(sel) * image.w
          /\ u.outH * display.h = ExtentY(sel) * image.h

\* C5 amended: the crop samples the scaled box, and the output image has the
\* scaled box dimensions truncated to whole pixels (so exactly those when they
\* are whole numbers); the whole canvas is drawn. A 1000x800 frame shown at
\* 500x400 with box {50,50,50,50} samples {100,100,100,100} into 100x100.
C5_OutputHasTruncatedScaledSize ==
    CroppedByDrag =>
      LET u == obs.complete[1]
          sel == obs.input.selection
          image == obs.input.image
          display == obs.input.display
      IN  /\ SamplesScaledBox(u, sel, image, display)
          /\ u.outW * display.w <= ExtentX(sel) * image.w
          /\ ExtentX(sel) * image.w < (u.outW + 1) * display.w
          /\ u.outH * display.h <= ExtentY(sel) * image.h
          /\ ExtentY(sel) * image.h < (u.outH + 1) * display.h
          /\ u.dw = <<u.outW, 1>> /\ u.dh = <<u.outH, 1>>
          /\ (/\ image.w = 1000 /\ image.h = 800
              /\ display = [w |-> 500, h |-> 400]
              /\ sel \in {Corner(50, 50, 100, 100), Corner(100, 100, 50, 50)})
               => /\ u.sx = <<100, 1>> /\ u.sy = <<100, 1>>
                  /\ u.sw = <<100, 1>> /\ u.sh = <<100, 1>>
                  /\ u.outW = 100 /\ u.outH = 100

\* the box {50,50,50,50} of a 1000x800 frame shown at 500x400 was cropped
C5_Witness ==
    /\ CroppedByDrag
    /\ obs.input.image.w = 1000 /\ obs.input.image.h = 800
    /\ obs.input.display = [w |-> 500, h |-> 400]
    /\ obs.input.selection = Corner(50, 50, 100, 100)
    /\ obs.complete[1].sw = <<100, 1>>

\* C6: a pointerUp in Selecting with a box of at least 10 x 10 display pixels
\* and a drawing surface available calls the completion callback exactly once,
\* with the crop of the frame shown, which the page appends as a message; the
\* cancel callback is not called and the selector is left with no selection.
C6_LargeDragCompletes ==
    [][(/\ MouseUpWhileSelecting
        /\ ExtentX(selection) >= 10 /\ ExtentY(selection) >= 10
        /\ obs'.input.ctx)
         => /\ Len(obs'.complete) = 1
            /\ obs'.complete[1].kind = "crop"
            /\ obs'.complete[1].src = tempScreenshot
            /\ obs'.cancel = 0
            /\ obs'.errors = 0
            /\ Len(messages') = Len(messages) + 1
            /\ MessageUrl(messages'[Len(messages')]) = obs'.complete[1]
            /\ isSelecting' = FALSE
            /\ selection' = Null]_vars

\* the drag (100,100) -> (110,110), of exactly 10 x 10, was released and cropped
C6_Witness ==
    /\ obs.op = "mouseUp"
    /\ obs.input.selection = Corner(100, 100, 110, 110)
    /\ obs.input.ctx
    /\ Len(obs.complete) = 1
    /\ Len(messages) = 1
    /\ ~isSelecting

\* a task that submits the crop: the Apply button or the Enter key
Submission == obs'.op \in {"apply", "enter"}

\* the applications of selector instance i that are in flight
InFlight(js, i) == {n \in 1..Len(js) : js[n].inst = i}

\* C7: a selector instance has at most one crop application in flight, it is
\* processing exactly while it has one, and a submission made while it is
\* processing starts nothing.
C7_OneApplicationInFlight ==
    [][/\ \A i \in 1..MaxCaptures : Cardinality(InFlight(jobs', i)) <= 1
       /\ CropperOpen' => (isProcessing' <=> InFlight(jobs', inst') # {})
       /\ (Submission /\ CropperOpen /\ isProcessing)
            => jobs' = jobs /\ isProcessing']_vars

\* Enter was pressed while an application was in flight, and it still is the
\* only one
C7_Witness ==
    /\ obs.op = "enter"
    /\ obs.input.processing
    /\ isProcessing
    /\ Len(jobs) = 1

\* the url of the crop of area a of frame image, drawn at a's own size
IsCropOf(u, image, a) ==
    /\ u.kind = "crop"
    /\ u.src = image
    /\ u.sx = <<a.x, 1>> /\ u.sy = <<a.y, 1>>
    /\ u.sw = <<a.width, 1>> /\ u.sh = <<a.height, 1>>
    /\ u.dw = <<a.width, 1>> /\ u.dh = <<a.height, 1>>
    /\ u.outW = a.width /\ u.outH = a.height

\* C8: the stored CropArea is the viewport's last report (or none); a started
\* application takes that area and the frame shown; no later task other than
\* its own completion changes an application in flight; and a completed one
\* emits the crop of exactly the area the viewport had last reported when it
\* was started, taken from the captured frame, with the area's width and
\* height, which the page appends.
C8_RasterizesAreaAtInvocation ==
    [][/\ CropperOpen' => croppedAreaPixels' = viewportArea'
       /\ (Submission /\ Len(jobs') = Len(jobs) + 1)
            => /\ SubSeq(jobs', 1, Len(jobs)) = jobs
               /\ jobs'[Len(jobs')].area = viewportArea
               /\ jobs'[Len(jobs')].area \in Areas
               /\ jobs'[Len(jobs')].src = tempScreenshot
               /\ tempScreenshot.kind = "frame"
       /\ obs'.op \notin {"apply", "enter", "applyFinish", "imageError"} => jobs' = jobs
       /\ (obs'.op = "applyFinish" /\ obs'.input.ctx)
            => /\ \E n \in 1..Len(jobs) : jobs[n] = obs'.input.job
               /\ Len(obs'.complete) = 1
               /\ IsCropOf(obs'.complete[1], obs'.input.job.src, obs'.input.job.reported)
               /\ obs'.input.job.src.kind = "frame"
               /\ MessageUrl(messages'[Len(messages')]) = obs'.complete[1]]_vars

\* an application completed after the viewport had reported another area
\* while it was in flight
C8_Witness ==
    /\ obs.op = "applyFinish"
    /\ Len(obs.complete) = 1
    /\ obs.input.current \in Areas
    /\ obs.input.current # obs.input.job.area
    /\ Len(messages) = 1

\* C9: a submission (button or Enter) made while no CropArea has been reported
\* emits nothing, starts nothing, leaves isProcessing false, and changes neither
\* pan, zoom, aspect ratio, the stored area, the frame nor the conversation.
C9_ApplyWithoutAreaIsNoOp ==
    [][(Submission /\ CropperOpen /\ croppedAreaPixels = Null)
         => /\ obs'.complete = <<>>
            /\ obs'.cancel = 0
            /\ obs'.errors = 0
            /\ ~isProcessing /\ ~isProcessing'
            /\ jobs' = jobs
            /\ UNCHANGED <<crop, zoom, aspectRatio, croppedAreaPixels, tempScreenshot,
                           messages, uuidCount>>]_vars

\* Enter was pressed on an open selector before any area was reported, after
\* pan, zoom and aspect ratio had been changed
C9_Witness ==
    /\ obs.op = "enter"
    /\ obs.input.area = Null
    /\ Mounted
    /\ crop # <<0, 0>> /\ zoom # 10 /\ aspectRatio # Free
    /\ jobs = <<>>

\* C10: skip passes to the completion callback exactly the frame the selector
\* was given, which becomes the url of the appended message, whatever pan,
\* zoom, aspect ratio and area are.
C10_SkipEmitsOriginal ==
    [][(obs'.op = "skip" /\ CropperOpen)
         => /\ obs'.complete = <<tempScreenshot>>
            /\ tempScreenshot.kind = "frame"
            /\ Len(messages') = Len(messages) + 1
            /\ SubSeq(messages', 1, Len(messages)) = messages
            /\ MessageUrl(messages'[Len(messages')]) = tempScreenshot]_vars

\* skip was pressed with a pan, a zoom, an aspect ratio and a partial area set
C10_Witness ==
    /\ obs.op = "skip"
    /\ obs.input.area \in Areas
    /\ obs.input.area.width < obs.input.image.w
    /\ obs.input.crop # <<0, 0>>
    /\ obs.input.zoom # 10
    /\ obs.input.aspect # Free
    /\ obs.complete = <<obs.input.image>>

\* no captureScreen call has been granted a stream so far
NoStreamGranted(cs) ==
    \A k \in 1..MaxCaptures :
       \/ cs[k].pc \in {"idle", "awaitStream"}
       \/ cs[k].pc = "done" /\ cs[k].stream = "none"

\* C11: when the stream request of a capture is rejected, the call ends there:
\* the completion callback is not called, no message is appended, no selector
\* is opened and tempScreenshot, the messages and the ids drawn are what they
\* were, as they were left by the click itself; and as long as no capture has
\* been granted a stream there is no message and no selector at all.
C11_AcquisitionFailureAborts ==
    [][/\ obs'.op \in {"captureClick", "streamRejected"}
            => /\ obs'.complete = <<>>
               /\ UNCHANGED <<messages, tempScreenshot, uuidCount, inst, jobs>>
       /\ obs'.op = "streamRejected"
            => \E k \in 1..MaxCaptures :
                  /\ calls[k].pc = "awaitStream"
                  /\ calls' = [calls EXCEPT ![k].pc = "done", ![k].stream = "none"]
       /\ NoStreamGranted(calls')
            => messages' = <<>> /\ tempScreenshot' = Null /\ inst' = 0]_vars

\* the stream request of the capture was rejected and the call has ended
C11_Witness ==
    /\ obs.op = "streamRejected"
    /\ calls[1].pc = "done"
    /\ calls[1].stream = "none"
    /\ messages = <<>>
    /\ tempScreenshot = Null

\* a captureScreen task that ended the capture in failure
CaptureFailed ==
    \/ obs.op = "captureClick" /\ ~obs.input.supported
    \/ obs.op \in {"streamRejected", "playRejected"}
    \/ obs.op = "playResolved" /\ obs.errors > 0

\* C12: every capture failure (unsupported platform, declined prompt, any
\* other acquisition error) shows the user a notification.
C12_EveryFailureNotified == CaptureFailed => obs.alerts >= 1

\* C13: a click on a platform without screen capture shows one notification
\* and ends the call at once without requesting a stream; the call never
\* requests one later; no selector is opened and no message is appended.
C13_UnsupportedNotifiesOnly ==
    [][/\ (obs'.op = "captureClick" /\ ~obs'.input.supported)
            => /\ obs'.alerts = 1
               /\ obs'.errors = 0
               /\ obs'.complete = <<>>
               /\ calls' = [calls EXCEPT ![started + 1].pc = "done",
                                         ![started + 1].stream = "none"]
               /\ UNCHANGED <<messages, tempScreenshot, uuidCount, inst, jobs>>
       /\ \A k \in 1..MaxCaptures : calls[k].pc = "done" => calls'[k] = calls[k]]_vars

\* the capture button was clicked on a platform without screen capture
C13_Witness ==
    /\ obs.op = "captureClick"
    /\ ~obs.input.supported
    /\ obs.alerts = 1
    /\ calls[1].pc = "done"
    /\ calls[1].stream = "none"
    /\ tempScreenshot = Null

\* the last message of a list
LastMessage(msgs) == msgs[Len(msgs)]

\* C14: whenever a selector calls the completion callback, it does so once and
\* the message the page appends has role user, an empty text body and exactly
\* one part, an image part whose url is the url the selector emitted: a crop
\* for a finished application, the frame shown for a skip.
C14_MessageOfCompletion ==
    [][obs'.complete # <<>>
         => /\ Len(obs'.complete) = 1
            /\ Len(messages') = Len(messages) + 1
            /\ LET m == LastMessage(messages')
               IN  /\ DOMAIN m = {"id", "role", "content", "parts"}
                   /\ m.role = "user"
                   /\ m.content = ""
                   /\ Len(m.parts) = 1
                   /\ m.parts[1].type = "image-screenshot"
                   /\ m.parts[1].data = [url |-> obs'.complete[1]]
            /\ obs'.op = "applyFinish" => obs'.complete[1].kind = "crop"
            /\ obs'.op = "skip" => obs'.complete[1] = tempScreenshot]_vars

\* an application finished and its crop is the image of the only message
C14_Witness ==
    /\ obs.op = "applyFinish"
    /\ Len(obs.complete) = 1
    /\ Len(messages) = 1
    /\ LastMessage(messages).role = "user"
    /\ MessageUrl(LastMessage(messages)).kind = "crop"

C16_DistinctIds ==
    \A i, j \in 1..Len(messages) : i # j => messages[i].id # messages[j].id

\* two image messages are in the conversation
C16_Witness ==
    /\ Len(messages) = 2
    /\ uuidCount = 2
    /\ messages[1].id # messages[2].id

ApplyCropEffect ==
    /\ obs'.complete = <<>> /\ obs'.cancel = 0 /\ obs'.errors = 0
    /\ IF croppedAreaPixels = Null
         THEN jobs' = jobs /\ isProcessing' = isProcessing
         ELSE /\ Len(jobs') = Len(jobs) + 1
              /\ SubSeq(jobs', 1, Len(jobs)) = jobs
              /\ jobs'[Len(jobs')].inst = inst
              /\ jobs'[Len(jobs')].src = tempScreenshot
              /\ jobs'[Len(jobs')].area = croppedAreaPixels
              /\ jobs'[Len(jobs')].st = "loading"
              /\ isProcessing' = TRUE
    /\ UNCHANGED <<messages, tempScreenshot, uuidCount, inst, crop, zoom,
                   croppedAreaPixels, aspectRatio, viewportArea, calls, started>>

\* C19: an Enter keydown on the pan/zoom selector while it has no application
\* in flight has the effect of applyCrop, which is also the effect of the Apply
\* button; an Enter keydown while it has one in flight changes nothing.
C19_EnterActsAsApply ==
    [][/\ (obs'.op = "enter" /\ CropperOpen /\ InFlight(jobs, inst) = {})
            => ApplyCropEffect
       /\ (obs'.op = "apply" /\ CropperOpen) => ApplyCropEffect
       /\ (obs'.op = "enter" /\ CropperOpen /\ InFlight(jobs, inst) # {})
            => /\ obs'.complete = <<>> /\ obs'.cancel = 0 /\ obs'.errors = 0
               /\ UNCHANGED <<messages, tempScreenshot, uuidCount, inst, cropperVars,
                              jobs, calls, started>>]_vars

\* Enter was pressed with an area reported and nothing in flight, and started
\* the only application
C19_Witness ==
    /\ obs.op = "enter"
    /\ ~obs.input.processing
    /\ obs.input.area \in Areas
    /\ Len(jobs) = 1
    /\ jobs[1].area = obs.input.area
    /\ isProcessing

\* the tasks in which a selector can complete: the end of a crop application,
\* a skip, a mouse-up of the click-drag selector
CompletionOps == {"applyFinish", "skip", "mouseUp"}

Max(a, b) == IF a >= b THEN a ELSE b

\* the part of the displayed image that lies under the box of sel, in display
\* pixels relative to the image's own top-left corner (empty: zero extent)
UnderSelection(sel, overlay, display) ==
    LET pos    == ImagePosition(overlay, display)
        left   == Max(Min(sel.startX, sel.endX), pos.left)
        top    == Max(Min(sel.startY, sel.endY), pos.top)
        right  == Min(Max(sel.startX, sel.endX), pos.left + display.w)
        bottom == Min(Max(sel.startY, sel.endY), pos.top + display.h)
    IN  [x |-> left - pos.left, y |-> top - pos.top,
         width |-> Max(right - left, 0), height |-> Max(bottom - top, 0)]

\* C28: the native rectangle a click-drag crop samples is the part of the
\* displayed image under the selection box, scaled by native / display,
\* wherever the image lies in the overlay the pointer is measured against.
C28_CropMatchesSelection ==
    CroppedByDrag =>
      LET u == obs.complete[1]
          image == obs.input.image
          display == obs.input.display
          part == UnderSelection(obs.input.selection, obs.input.overlay, display)
      IN  /\ u.sx[1] * display.w = part.x * image.w * u.sx[2]
          /\ u.sy[1] * display.h = part.y * image.h * u.sy[2]
          /\ u.sw[1] * display.w = part.width * image.w * u.sw[2]
          /\ u.sh[1] * display.h = part.height * image.h * u.sh[2]

\* C29: the source rectangle of every click-drag crop lies inside the native
\* image: x + width <= nativeWidth and y + height <= nativeHeight (x, y >= 0).
C29_SourceInsideImage ==
    CroppedByDrag =>
      LET u == obs.complete[1]
          image == obs.input.image
      IN  /\ u.sx[1] >= 0 /\ u.sy[1] >= 0
          /\ u.sx[1] * u.sw[2] + u.sw[1] * u.sx[2] <= image.w * u.sx[2] * u.sw[2]
          /\ u.sy[1] * u.sh[2] + u.sh[1] * u.sy[2] <= image.h * u.sy[2] * u.sh[2]

\* a url produced by canvas.toDataURL('image/png')
IsPngDataUrl(u) == u.kind \in {"frame", "crop"}

\* a captureScreen call took its snapshot
CaptureSucceeded == obs'.op = "playResolved" /\ obs'.errors = 0

C23_StartFixedWhileSelecting ==
    [][(/\ SelectorOpen /\ isSelecting /\ selection # Null
        /\ SelectorOpen' /\ isSelecting' /\ selection' # Null)
         => /\ selection'.startX = selection.startX
            /\ selection'.startY = selection.startY]_vars

\* C24: a mouse-up or a mouse-move on the click-drag selector in Idle leaves it
\* Idle with no selection, crops nothing, calls neither callback and changes
\* neither the frame shown nor the conversation.
C24_IdleUpAndMoveAreNoOps ==
    [][(obs'.op \in {"mouseUp", "mouseMove"} /\ SelectorOpen /\ ~isSelecting)
         => /\ selection = Null
            /\ ~isSelecting'
            /\ selection' = Null
            /\ obs'.complete = <<>>
            /\ obs'.cancel = 0
            /\ obs'.errors = 0
            /\ UNCHANGED <<messages, uuidCount, tempScreenshot, inst, imgDisplay,
                           overlayRect, jobs>>]_vars

\* a mouse-up arrived on the open selector in Idle
C24_Witness ==
    /\ obs.op = "mouseUp"
    /\ ~obs.input.selecting
    /\ obs.input.selection = Null
    /\ SelectorOpen
    /\ ~isSelecting
    /\ selection = Null
    /\ messages = <<>>

C26_ProcessingEventuallyEnds == isProcessing ~> ~isProcessing

\* C27: an application that fails for want of a drawing surface emits nothing,
\* is logged, changes neither the conversation, the frame shown, pan, zoom,
\* aspect ratio nor the stored area, leaves the other applications in flight
\* alone, and leaves the selector that started it, when still open, not
\* processing, with Apply enabled.
C27_FailedApplyAbortsOnlyItself ==
    [][(obs'.op = "applyFinish" /\ ~obs'.input.ctx)
         => /\ obs'.complete = <<>>
            /\ obs'.cancel = 0
            /\ obs'.errors = 1
            /\ UNCHANGED <<messages, uuidCount, tempScreenshot, inst, crop, zoom,
                           aspectRatio, croppedAreaPixels, viewportArea>>
            /\ Len(jobs') = Len(jobs) - 1
            /\ (CropperOpen /\ obs'.input.job.inst = inst)
                 => /\ CropperOpen'
                    /\ ~isProcessing'
                    /\ ApplyButtonEnabled'
                    /\ EnterApplies'
                    /\ croppedAreaPixels' # Null]_vars

\* an application failed on an open selector whose pan, zoom and aspect ratio
\* had been set: they still are, and the selector is not processing
C27_Witness ==
    /\ obs.op = "applyFinish"
    /\ ~obs.input.ctx
    /\ CropperOpen
    /\ ~isProcessing
    /\ jobs = <<>>
    /\ croppedAreaPixels = obs.input.job.area
    /\ crop # <<0, 0>> /\ zoom # 10 /\ aspectRatio # Free
    /\ messages = <<>>

\* C30: the conversation holds at most one message per capture.
C30_OneMessagePerCapture ==
    \A k \in 1..MaxCaptures : MessagesOf(messages, k) <= 1

\* a message with an image-screenshot part
HasScreenshotPart(m) ==
    \E n \in 1..Len(m.parts) : m.parts[n].type = "image-screenshot"

\* C22: no message list handed to the chat transport contains a message with
\* an image-screenshot part.
C22_NoScreenshotSent ==
    \A r \in 1..Len(sent) : \A n \in 1..Len(sent[r]) : ~HasScreenshotPart(sent[r][n])

\* C31: while the click-drag selector is Selecting and the box has non-zero
\* area, the selection overlay is displayed with the box at left, top, width
\* and height of the NormalizedBox and a label with its width and height in
\* display pixels; it is not displayed in Idle, nor while start = end.
C31_OverlayShowsNormalizedBox ==
    SelectorOpen =>
      /\ (isSelecting /\ selection # Null
            /\ ExtentX(selection) > 0 /\ ExtentY(selection) > 0)
           => /\ SelectionOverlay # Null
              /\ SelectionOverlay.style =
                   [left   |-> Min(selection.startX, selection.endX),
                    top    |-> Min(selection.startY, selection.endY),
                    width  |-> ExtentX(selection),
                    height |-> ExtentY(selection)]
              /\ SelectionOverlay.label = <<ExtentX(selection), "x", ExtentY(selection)>>
      /\ ~isSelecting => SelectionOverlay = Null
      /\ (selection # Null
            /\ selection.startX = selection.endX /\ selection.startY = selection.endY)
           => SelectionOverlay = Null

\* a drag towards the upper left has given a box of non-zero area, displayed
C31_Witness ==
    /\ SelectorOpen
    /\ isSelecting
    /\ selection # Null
    /\ selection.endX < selection.startX
    /\ selection.endY < selection.startY
    /\ SelectionOverlay # Null
    /\ SelectionOverlay.style.width > 0

\* a selector instance is on the page: the last instance mounted has its
\* keydown listener registered, and the click-drag selector its image laid out
SelectorShown ==
    /\ inst >= 1
    /\ keyListeners = {inst}
    /\ variant = "selector" => imgDisplay # Null /\ overlayRect # Null

\* no selector instance is on the page
NoSelectorShown ==
    /\ keyListeners = {}
    /\ imgDisplay = Null
    /\ overlayRect = Null

\* C32: the page holds a captured frame exactly while a selector is shown; the
\* frame is set only by the task that ends a capture successfully, to the frame
\* of that capture; it is dropped, and the selector closed, by every task in
\* which a selector completes or the user cancels, and by no other task.
C32_FrameHeldWhileSelectorOpen ==
    /\ [](IF tempScreenshot # Null THEN SelectorShown ELSE NoSelectorShown)
    /\ [][/\ (tempScreenshot' # Null /\ tempScreenshot' # tempScreenshot)
               => /\ obs'.op = "playResolved"
                  /\ obs'.errors = 0
                  /\ \E k \in 1..MaxCaptures :
                        /\ calls[k].pc = "awaitPlay"
                        /\ calls'[k].pc = "done"
                        /\ tempScreenshot' \in {FrameUrl(k, size) : size \in NativeSizes}
          /\ (obs'.complete # <<>> \/ obs'.cancel > 0)
               => tempScreenshot' = Null /\ NoSelectorShown'
          /\ (tempScreenshot # Null /\ tempScreenshot' = Null)
               => (obs'.complete # <<>> \/ obs'.cancel > 0)]_vars

\* a selector has completed: its message is in the conversation, the frame is
\* dropped and no selector is shown
C32_Witness ==
    /\ obs.complete # <<>>
    /\ Len(messages) = 1
    /\ inst = 1
    /\ tempScreenshot = Null
    /\ NoSelectorShown

\* the steps of a successful capture, in their order
CaptureSteps == <<"request", "attach", "playable", "snapshot", "stop", "open">>

\* s is an initial part of t
IsPrefix(s, t) == Len(s) <= Len(t) /\ s = SubSeq(t, 1, Len(s))

\* C33: every capture call has executed an initial part of: stream requested,
\* stream attached, first frame playable, frame snapshotted, tracks stopped,
\* selector opened; a call whose stream was granted has requested it, and a
\* selector is open only on a frame whose call went through all the steps
\* and whose stream is not live.
C33_CaptureStepsInOrder ==
    /\ \A k \in 1..MaxCaptures :
          /\ IsPrefix(calls[k].steps, CaptureSteps)
          /\ calls[k].stream = "live" => IsPrefix(<<"request", "attach">>, calls[k].steps)
          /\ calls[k].stream = "stopped" => calls[k].steps = CaptureSteps
    /\ tempScreenshot # Null =>
          /\ calls[CaptureOf(tempScreenshot)].steps = CaptureSteps
          /\ calls[CaptureOf(tempScreenshot)].stream # "live"

\* a capture has succeeded: its selector is open and its stream is stopped
C33_Witness ==
    /\ tempScreenshot # Null
    /\ calls[CaptureOf(tempScreenshot)].pc = "done"
    /\ calls[CaptureOf(tempScreenshot)].stream = "stopped"
    /\ calls[CaptureOf(tempScreenshot)].steps = CaptureSteps

\* number of stream requests (permission prompts) a call has made
Requests(call) ==
    Cardinality({n \in 1..Len(call.steps) : call.steps[n] = "request"})

\* C34: a click of the capture button requests a display stream once when the
\* platform supports capture and not at all when it does not; no other task
\* requests a stream, so that no call ever has requested more than one and a
\* call that was not started has requested none.
C34_OneRequestPerClick ==
    [][/\ obs'.op = "captureClick"
            => /\ started' = started + 1
               /\ Requests(calls'[started']) = IF obs'.input.supported THEN 1 ELSE 0
               /\ \A k \in 1..MaxCaptures :
                     k # started' => Requests(calls'[k]) = Requests(calls[k])
       /\ obs'.op # "captureClick"
            => \A k \in 1..MaxCaptures : Requests(calls'[k]) = Requests(calls[k])
       /\ \A k \in 1..MaxCaptures :
             /\ Requests(calls'[k]) <= 1
             /\ k > started' => Requests(calls'[k]) = 0]_vars

\* a capture failed after its only request and nothing asked again
C34_Witness ==
    /\ obs.op = "streamRejected"
    /\ calls[1].pc = "done"
    /\ Requests(calls[1]) = 1
    /\ started = 1

\* C35: a pan, a zoom and an aspect ratio update of the pan/zoom selector each
\* set their own field to the value given and leave the other two fields,
\* isProcessing, the frame shown and the conversation as they were; none calls
\* the completion or the cancel callback or starts an application.
C35_ViewUpdatesArePure ==
    [][/\ obs'.op = "cropChange"
            => crop' = obs'.input.value /\ UNCHANGED <<zoom, aspectRatio>>
       /\ obs'.op \in {"zoomChange", "zoomSlider"}
            => zoom' = obs'.input.value /\ UNCHANGED <<crop, aspectRatio>>
       /\ obs'.op = "aspect"
            => aspectRatio' = obs'.input.value /\ UNCHANGED <<crop, zoom>>
       /\ obs'.op \in {"cropChange", "zoomChange", "zoomSlider", "aspect"}
            => /\ UNCHANGED <<isProcessing, tempScreenshot, messages, uuidCount, jobs>>
               /\ obs'.complete = <<>>
               /\ obs'.cancel = 0]_vars

\* the aspect ratio was set on a selector that had been panned and zoomed
C35_Witness ==
    /\ obs.op = "aspect"
    /\ CropperOpen
    /\ aspectRatio = obs.input.value
    /\ aspectRatio # Free
    /\ crop # <<0, 0>>
    /\ zoom # 10

\* C36: isSelecting is true if and only if a selection is recorded: the
\* click-drag selector is Idle with no selection, or Selecting with one.
C36_SelectingIffSelection == isSelecting <=> selection # Null

\* the selector is Selecting with a selection whose end was moved
C36_Witness ==
    /\ SelectorOpen
    /\ obs.op = "mouseMove"
    /\ isSelecting
    /\ selection # Null
    /\ selection.endX # selection.startX

\* C37: a pointerUp of the click-drag selector whose rasterization finds no
\* drawing surface calls neither the completion nor the cancel callback, is
\* logged, appends nothing and leaves the selector open on the same frame,
\* Idle with no selection, where a pointerDown starts a new drag.
C37_FailedRasterReturnsToIdle ==
    [][(/\ MouseUpWhileSelecting
        /\ ExtentX(selection) >= 10
        /\ ExtentY(selection) >= 10
        /\ ~obs'.input.ctx)
         => /\ obs'.complete = <<>>
            /\ obs'.cancel = 0
            /\ obs'.errors = 1
            /\ UNCHANGED <<messages, uuidCount, tempScreenshot, imgDisplay, overlayRect>>
            /\ SelectorOpen'
            /\ ~isSelecting'
            /\ selection' = Null]_vars

\* a drag of sufficient size ended without a drawing surface
C37_Witness ==
    /\ obs.op = "mouseUp"
    /\ obs.input.selecting
    /\ ~obs.input.ctx
    /\ obs.errors = 1
    /\ SelectorOpen
    /\ ~isSelecting
    /\ selection = Null
    /\ messages = <<>>

\* the tasks a keydown on the document starts
KeyOps == {"escape", "enter", "key", "keydown"}

\* C38: a keydown that arrives while no selector is open, in particular after
\* a selector was closed by completion or cancel, reaches no selector: it
\* calls neither callback, starts no application and changes nothing of the
\* page; a selector's key handler runs only while that selector is open.
C38_NoKeysAfterClose ==
    [][/\ (obs'.op \in KeyOps /\ ~Mounted)
            => /\ obs'.op = "keydown"
               /\ obs'.cancel = 0
               /\ obs'.complete = <<>>
               /\ UNCHANGED <<messages, uuidCount, tempScreenshot, inst, jobs,
                              isProcessing, croppedAreaPixels, escaped>>
       /\ obs'.op \in {"escape", "enter", "key"} => Mounted]_vars

\* Escape was pressed after the selector had been closed: nothing was called
C38_Witness ==
    /\ obs.op = "keydown"
    /\ obs.input.key = "Escape"
    /\ inst = 1
    /\ ~Mounted
    /\ obs.cancel = 0
    /\ escaped = {}

\* the texts of Inputs that consist of white space only
BlankTexts == {"", " "}

\* C39: a submission of the composer with a text that is not blank hands the
\* chat transport one more message list, ending in a user message whose only
\* part is that text as typed, adds that message to the conversation and
\* empties the input; a submission of a blank text hands over nothing and
\* leaves the input and the conversation unchanged.
C39_SubmitSendsNonBlankText ==
    [][obs'.op = "submit"
         => IF inputText \notin BlankTexts
              THEN /\ Len(sent') = Len(sent) + 1
                   /\ SubSeq(sent', 1, Len(sent)) = sent
                   /\ LET handed == sent'[Len(sent')]
                      IN  /\ handed = messages'
                          /\ LastMessage(handed).role = "user"
                          /\ LastMessage(handed).parts =
                               << [type |-> "text", text |-> inputText] >>
                   /\ Len(messages') = Len(messages) + 1
                   /\ SubSeq(messages', 1, Len(messages)) = messages
                   /\ inputText' = ""
              ELSE UNCHANGED <<sent, inputText, messages, idCount>>]_vars

\* a text with a leading space was submitted: it was handed over as typed and
\* the input is empty
C39_Witness ==
    /\ obs.op = "submit"
    /\ obs.input.text = " hi"
    /\ Len(sent) = 1
    /\ LastMessage(sent[1]).parts = << [type |-> "text", text |-> " hi"] >>
    /\ inputText = ""

====
